---- MODULE Spec2Model ----
(***************************************************************************)
(* Session orchestration engine of DAAgent: OrchestratorAgent.chat and the *)
(* SessionManager, MessageHistoryManager, ClarificationHandler and Router  *)
(* it drives.  A turn is a coroutine: every await of a capability (the     *)
(* summarizer, the planner, the database query agent, the synthesizer) is  *)
(* a suspension point, and the code between two suspension points is one   *)
(* atomic action.                                                          *)
(***************************************************************************)
EXTENDS Integers, Sequences, FiniteSets, TLC

VARIABLES
    heap,                \* the session-state dicts ever created, by object id
    store,               \* SessionManager._session_state: session id -> object id (0: absent)
    task,                \* per turn coroutine: its position and local variables
    cancellation_event,  \* per turn coroutine: the asyncio.Event passed to chat
    now,                 \* the last value read from int(time.time()), from 0
    turns,               \* number of chat calls made so far
    obs,                 \* per turn coroutine: history variables of the current turn
    fetched,             \* per session id: history variables of its fresh fetches
    call                 \* the last direct call of reset or of a SessionManager method
                         \* since the last chat call: history variable

vars == <<heap, store, task, cancellation_event, now, turns, obs, fetched, call>>

-----------------------------------------------------------------------------
(* Bounds of the model *)

MaxTurns == 2
MaxClock == 1
MaxKeep == 3
MaxObjects == 3

(* Program constants *)

MAX_MESSAGES == 20
KEEP_RECENT == 10
max_retries == 2
keep_last_n == 5

None == "<None>"

\* the coroutines that run chat
Tasks == {"t1", "t2"}
\* the coroutine of a client whose messages arrive one after the other
OneTask == {"t1"}
SessionIds == {"default", "s1"}
\* user_input.session_id of the one client of Spec
OneSession == {None}
UserTexts == {"a", "b"}
SqlQueries == {"q1", "q2"}

-----------------------------------------------------------------------------
(* Messages of a history *)

UserMsg(text) == [role |-> "user", content |-> text]
AssistantMsg(text) == [role |-> "assistant", content |-> text]
SummaryMsg(summary_text) ==
    [role |-> "system", content |-> "[Previous conversation summary]: " \o summary_text]

\* A stored conversation longer than MAX_MESSAGES, as the API hands it to chat
LongSeed ==
    [i \in 1..(MAX_MESSAGES + 1) |->
        IF i % 2 = 1 THEN UserMsg("old") ELSE AssistantMsg("old")]

Seeds == {<<>>, LongSeed}
SummaryTexts == {"S"}

-----------------------------------------------------------------------------
(* Outputs of the capabilities *)

Plan(intent_type, requires_plot, use_cached_data, cached_data_key) ==
    [intent_type |-> intent_type, requires_plot |-> requires_plot,
     use_cached_data |-> use_cached_data, cached_data_key |-> cached_data_key]

\* ExecutionPlan values the planner can return: one for every way through
\* _execute_plan
Plans ==
    {Plan("database_query", FALSE, FALSE, None),
     Plan("database_query", TRUE, TRUE, None),
     Plan("database_query", FALSE, TRUE, "ff33f1b1_0"),
     Plan("general_question", FALSE, FALSE, None),
     Plan("general_question", TRUE, FALSE, None),
     Plan("general_question", TRUE, TRUE, "latest")}

ClarificationStrings == {"Q?"}

\* result.output of the planner: Union[str, ExecutionPlan]
PlannerOutputs ==
    [isstr : {TRUE}, text : ClarificationStrings, plan : {<<>>}]
        \cup [isstr : {FALSE}, text : {None}, plan : {<<p>> : p \in Plans}]

QueryAgentOutput(sql_query, success, error, requires_clarification, clarification_question) ==
    [sql_query |-> sql_query, success |-> success, error |-> error,
     requires_clarification |-> requires_clarification,
     clarification_question |-> clarification_question]

\* QueryAgentOutput values the database query agent can return
QueryAgentOutputs ==
    {QueryAgentOutput("q1", TRUE, None, FALSE, None),
     QueryAgentOutput("q2", TRUE, None, TRUE, "CQ?"),
     QueryAgentOutput("q1", FALSE, "e1", FALSE, None),
     QueryAgentOutput("q2", FALSE, None, TRUE, "CQ?")}

\* AgentResponse values the synthesizer can return
SynthOutputs == {[message |-> "ans", requires_followup |-> FALSE]}

-----------------------------------------------------------------------------
(* SessionManager *)

NewSession(message_history) ==
    [message_history |-> message_history,
     cached_query_results |-> <<>>,
     pending_clarification |-> <<>>]

\* GetOrCreateSession that takes a seed for every session, new or not
GetOrCreateSessionTakingSeed(hp, st, session_id, message_history) ==
    IF st[session_id] = 0
    THEN [heap |-> Append(hp, NewSession(message_history)),
          store |-> [st EXCEPT ![session_id] = Len(hp) + 1],
          obj |-> Len(hp) + 1]
    ELSE LET o == st[session_id] IN
         IF message_history # <<>>
         THEN [heap |-> [hp EXCEPT ![o].message_history = message_history],
               store |-> st, obj |-> o]
         ELSE [heap |-> hp, store |-> st, obj |-> o]

\* get_or_create_session on (heap, store): the new heap and store, and the
\* object id of the session state returned
GetOrCreateSession(hp, st, session_id, message_history) ==
    IF st[session_id] = 0
    THEN [heap |-> Append(hp, NewSession(message_history)),
          store |-> [st EXCEPT ![session_id] = Len(hp) + 1],
          obj |-> Len(hp) + 1]
    ELSE LET o == st[session_id] IN
         IF hp[o].message_history = <<>> /\ message_history # <<>>
         THEN [heap |-> [hp EXCEPT ![o].message_history = message_history],
               store |-> st, obj |-> o]
         ELSE [heap |-> hp, store |-> st, obj |-> o]

\* position of key in an insertion-ordered dict (0: absent)
KeyIndex(d, key) ==
    IF \E i \in 1..Len(d) : d[i].key = key
    THEN CHOOSE i \in 1..Len(d) : d[i].key = key
    ELSE 0

\* d[key] = value on an insertion-ordered dict
DictSet(d, key, value) ==
    IF KeyIndex(d, key) = 0
    THEN Append(d, [key |-> key, value |-> value])
    ELSE [d EXCEPT ![KeyIndex(d, key)].value = value]

\* d.get(key), as a sequence of at most one value
DictGet(d, key) ==
    IF KeyIndex(d, key) = 0 THEN <<>> ELSE <<d[KeyIndex(d, key)].value>>

\* d.pop(key, None): the dict without the key
DictDel(d, key) == SelectSeq(d, LAMBDA e : e.key # key)

\* StoreQueryResult that keeps one cache, the default session's, for every session
StoreQueryResultInDefault(hp, st, session_id, key, result) ==
    LET g == GetOrCreateSession(hp, st, "default", <<>>) IN
    [heap |-> [g.heap EXCEPT ![g.obj].cached_query_results =
                    DictSet(g.heap[g.obj].cached_query_results, key, result)],
     store |-> g.store]

StoreQueryResult(hp, st, session_id, key, result) ==
    LET g == GetOrCreateSession(hp, st, session_id, <<>>) IN
    [heap |-> [g.heap EXCEPT ![g.obj].cached_query_results =
                    DictSet(g.heap[g.obj].cached_query_results, key, result)],
     store |-> g.store]

GetQueryResult(hp, st, session_id, key) ==
    IF st[session_id] = 0 THEN <<>>
    ELSE DictGet(hp[st[session_id]].cached_query_results, key)

\* GetLatestQueryResult that returns the last entry whatever its key
GetLastInsertedResult(hp, st, session_id) ==
    IF st[session_id] = 0 THEN <<>>
    ELSE LET d == hp[st[session_id]].cached_query_results IN
         IF d = <<>> THEN <<>> ELSE <<d[Len(d)].value>>

GetLatestQueryResult(hp, st, session_id) ==
    IF st[session_id] = 0 THEN <<>>
    ELSE LET d == hp[st[session_id]].cached_query_results IN
         IF d = <<>> THEN <<>>
         ELSE IF KeyIndex(d, "latest") # 0 THEN DictGet(d, "latest")
         ELSE <<d[Len(d)].value>>

\* KeepLastN that keeps the oldest entries instead of the most recent
KeepFirstN(d, n) ==
    IF Len(d) <= n THEN d
    ELSE LET latest == DictGet(d, "latest")
             items == DictDel(d, "latest")
             keep_count == n - (IF latest # <<>> THEN 1 ELSE 0)
         IN  (IF latest # <<>> THEN <<[key |-> "latest", value |-> latest[1]]>> ELSE <<>>)
                 \o SubSeq(items, 1, keep_count)

\* the dict clear_old_results leaves
KeepLastN(d, n) ==
    IF Len(d) <= n THEN d
    ELSE LET latest == DictGet(d, "latest")
             items == DictDel(d, "latest")
             keep_count == n - (IF latest # <<>> THEN 1 ELSE 0)
             \* items[-keep_count:]: items[-0:] is the whole list, and a
             \* negative keep_count makes the start index positive
             items_to_keep ==
                 IF Len(items) > keep_count
                 THEN IF keep_count = 0 THEN items
                      ELSE IF keep_count < 0
                      THEN SubSeq(items, 1 - keep_count, Len(items))
                      ELSE SubSeq(items, Len(items) - keep_count + 1, Len(items))
                 ELSE items
         IN  (IF latest # <<>> THEN <<[key |-> "latest", value |-> latest[1]]>> ELSE <<>>)
                 \o items_to_keep

\* ClearOldResults that evicts nothing
ClearNoResults(hp, st, session_id, n) == hp

\* clear_old_results on the session's cache; nothing for an unknown session
ClearOldResults(hp, st, session_id, n) ==
    IF st[session_id] = 0 THEN hp
    ELSE [hp EXCEPT ![st[session_id]].cached_query_results =
              KeepLastN(hp[st[session_id]].cached_query_results, n)]

\* hashlib.md5(sql_query.encode()).hexdigest()[:8]
Md5Prefix(sql_query) ==
    CASE sql_query = "q1" -> "ff33f1b1"
      [] sql_query = "q2" -> "74d502a7"
      [] sql_query = "q3" -> "69855eda"
      [] sql_query = "q4" -> "68156800"

CacheKey(sql_query, timestamp) == Md5Prefix(sql_query) \o "_" \o ToString(timestamp)

-----------------------------------------------------------------------------
(* MessageHistoryManager *)

\* AddMessageToHistory that starts the history over
AddMessageToNewHistory(session, user_message, assistant_message) ==
    [session EXCEPT !.message_history = user_message \o assistant_message]

\* add_message_to_history: each argument is a sequence of at most one message
AddMessageToHistory(session, user_message, assistant_message) ==
    [session EXCEPT !.message_history = @ \o user_message \o assistant_message]

\* NeedsSummary with twice MAX_MESSAGES as the threshold
NeedsSummaryOverTwiceMax(messages) == Len(messages) > 2 * MAX_MESSAGES

\* NeedsSummary with KEEP_RECENT as the threshold
NeedsSummaryOverKeepRecent(messages) == Len(messages) > KEEP_RECENT

NeedsSummary(messages) == Len(messages) > MAX_MESSAGES

\* RecentMessages that takes the oldest messages: messages[:KEEP_RECENT]
OldestMessages(messages) ==
    IF Len(messages) <= KEEP_RECENT THEN messages
    ELSE SubSeq(messages, 1, KEEP_RECENT)

\* messages[-KEEP_RECENT:]
RecentMessages(messages) ==
    IF Len(messages) <= KEEP_RECENT THEN messages
    ELSE SubSeq(messages, Len(messages) - KEEP_RECENT + 1, Len(messages))

\* what summarize_if_needed returns once the summarizer has answered
Summarized(summary_text, recent_messages) == <<SummaryMsg(summary_text)>> \o recent_messages

-----------------------------------------------------------------------------
(* Router *)

BuildErrorContext(error_msg, failed_query) ==
    "\n\nIMPORTANT: The previous query failed with error: " \o error_msg \o "\n"
        \o "Failed query: " \o failed_query \o "\n"
        \o "Please analyze the error, use schema tools if needed to find the correct column/table names, "
        \o "generate a corrected query, and execute it using the query_database tool."

\* the input of the attempt that follows the failed attempt agent_output
RetryMessage(original_message, agent_output) ==
    original_message \o
        BuildErrorContext(IF agent_output.error \in {None, ""} THEN "Unknown error"
                          ELSE agent_output.error,
                          agent_output.sql_query)

\* ShouldRetry with a budget of max_retries + 2 retries
ShouldRetryTwiceMore(attempt, agent_output) ==
    ~agent_output.success /\ attempt < max_retries + 2

\* ShouldRetry with the attempt budget off by one
ShouldRetryOnceMore(attempt, agent_output) ==
    ~agent_output.success /\ attempt <= max_retries

\* ShouldRetry without the test of the attempt's success
ShouldRetryAfterSuccess(attempt, agent_output) ==
    attempt < max_retries

\* TRUE when route_to_database_query starts another attempt after the attempt
\* numbered attempt (from 0) returned agent_output
ShouldRetry(attempt, agent_output) ==
    ~agent_output.success /\ attempt < max_retries

-----------------------------------------------------------------------------
(* ClarificationHandler *)

CombinedMessage(original_message, text) ==
    original_message \o "\n\n[Clarification response]: " \o text

IsClarificationResponse(session) == session.pending_clarification # <<>>

ClarificationMessage(intent) ==
    IF intent.clarification_question \in {None, ""}
    THEN "Could you please clarify your question?"
    ELSE intent.clarification_question

\* ClarificationRequestSession that queues the request behind a pending one
ClarificationRequestQueued(session, content, intent) ==
    AddMessageToHistory(
        [session EXCEPT !.pending_clarification =
            Append(@, [original_message |-> content, intent |-> intent])],
        <<UserMsg(content)>>,
        <<AssistantMsg(ClarificationMessage(intent))>>)

\* ClarificationRequestSession without the store of the pending clarification
ClarificationRequestNotStored(session, content, intent) ==
    [session EXCEPT !.message_history =
        @ \o <<UserMsg(content), AssistantMsg(ClarificationMessage(intent))>>]

\* the session state handle_clarification_request leaves
ClarificationRequestSession(session, content, intent) ==
    AddMessageToHistory(
        [session EXCEPT !.pending_clarification =
            <<[original_message |-> content, intent |-> intent]>>],
        <<UserMsg(content)>>,
        <<AssistantMsg(ClarificationMessage(intent))>>)

\* the AgentResponse handle_clarification_request returns
ClarificationResponse(intent, session_id) ==
    [kind |-> "response",
     message |-> ClarificationMessage(intent),
     requires_followup |-> TRUE,
     metadata |-> [intent_type |-> intent.intent_type,
                   requires_clarification |-> TRUE,
                   requires_database |-> None,
                   session_id |-> session_id]]

-----------------------------------------------------------------------------
(* OrchestratorAgent.chat *)

NoResponse == [kind |-> "none", message |-> None, requires_followup |-> FALSE,
               metadata |-> [intent_type |-> None, requires_clarification |-> FALSE,
                             requires_database |-> None, session_id |-> None]]

\* chat raised asyncio.CancelledError
CancelledResponse == [NoResponse EXCEPT !.kind = "cancelled"]

\* chat raised the exception of a capability call
FailedResponse == [NoResponse EXCEPT !.kind = "failed"]

IdleTask ==
    [pc |-> "idle",
     session_id |-> None,          \* session_id of _prepare_session_and_history
     content |-> None,             \* user_input.content
     session_state |-> 0,          \* object id of session_state
     recent_messages |-> <<>>,     \* recent_messages of summarize_if_needed
     plan_or_clarification |-> <<>>,
     agent_output |-> <<>>,        \* agent_output of _execute_plan and chat
     attempt |-> 0,                \* attempt of route_to_database_query
     user_message |-> None,        \* user_message of route_to_database_query
     response |-> NoResponse]

NoObs ==
    [hist_before |-> <<>>,         \* the session's history when chat was called
     hist_planning |-> <<>>,       \* the history at the start of Planning
     pending_before |-> <<>>,      \* the session's PendingClarification when chat was called
     cache_before |-> <<>>,        \* the session's cache when chat was called
     summarizer_calls |-> 0,
     summarizer_outcome |-> None,  \* "returned" or "raised", once the summarizer has ended
     planner_inputs |-> <<>>,      \* text and history of every planner call
     fetch_inputs |-> <<>>,        \* text of every database query agent call
     fetch_outputs |-> <<>>,       \* output of every database query agent call
     router_result |-> <<>>,       \* what route_to_database_query returned
     synth_inputs |-> <<>>,        \* agent_output of every synthesizer call
     cache_lookups |-> <<>>,       \* key and result of every cache lookup of _execute_plan
     raised |-> None,              \* the capability whose call raised, if one did
     cancel_pc |-> None]           \* where the turn was when the event was set

NoFetch ==
    [success |-> <<>>,             \* the last successful outcome route_to_database_query returned
     stored |-> <<>>]              \* the last outcome _execute_plan stored in the cache

\* the state of every session as the store gives it (empty: no such session)
StoredSessions(hp, st) ==
    [s \in SessionIds |-> IF st[s] = 0 THEN <<>> ELSE <<hp[st[s]]>>]

NoCall ==
    [op |-> None,                  \* the method called
     session_id |-> None,          \* its arguments, those it has
     message_history |-> <<>>,
     key |-> None,
     result |-> <<>>,
     n |-> 0,
     before |-> <<>>]              \* StoredSessions when it was called

Running(t) == task[t].pc \notin {"idle", "done"}

\* CancellationRequested of a check that never raises
CancellationIgnored(event) == FALSE

\* the condition under which _check_cancellation raises
CancellationRequested(event) == event

\* A turn in flight is a context: the heap, the store, the coroutine's locals
\* and its history variables; each step of the pipeline maps a context to the next.

\* _check_cancellation raised
RaiseCancelled(c) ==
    [c EXCEPT !.tk.pc = "done", !.tk.response = CancelledResponse]

\* handle_clarification_request, and chat returns its response
HandleClarificationRequest(c, intent) ==
    [c EXCEPT
        !.heap[c.tk.session_state] =
            ClarificationRequestSession(@, c.tk.content, intent),
        !.tk.pc = "done",
        !.tk.response = ClarificationResponse(intent, c.tk.session_id)]

\* _finalize_response up to the await of the synthesizer
FinalizeResponse(c) ==
    [c EXCEPT !.tk.pc = "synthesizing",
              !.ob.synth_inputs = Append(@, c.tk.agent_output)]

\* AfterExecutePlan without the test of requires_clarification
AfterExecutePlanToSynthesis(c, cancelled) ==
    IF cancelled THEN RaiseCancelled(c) ELSE FinalizeResponse(c)

\* chat from the return of _execute_plan (cancelled: the event as chat reads it)
AfterExecutePlan(c, cancelled) ==
    IF cancelled THEN RaiseCancelled(c)
    ELSE IF c.tk.agent_output # <<>> /\ c.tk.agent_output[1].requires_clarification
    THEN HandleClarificationRequest(c,
            [intent_type |-> c.tk.plan_or_clarification[1].plan[1].intent_type,
             clarification_question |->
                IF c.tk.agent_output[1].clarification_question \in {None, ""}
                THEN "Could you please clarify which column you meant?"
                ELSE c.tk.agent_output[1].clarification_question])
    ELSE FinalizeResponse(c)

\* NeedsData that asks for data only when a plot is to be drawn
NeedsDataForPlotOnly(plan) == plan.requires_plot

\* NeedsData without the case of a plot for a general question
NeedsDataForQueryOnly(plan) == plan.intent_type = "database_query"

NeedsData(plan) ==
    plan.intent_type = "database_query"
        \/ (plan.intent_type = "general_question" /\ plan.requires_plot)

\* CachedOutput that reads "latest" whatever key the plan names
CachedOutputOfLatest(c, plan) ==
    GetLatestQueryResult(c.heap, c.store, c.tk.session_id)

\* the cache lookup of _execute_plan
CachedOutput(c, plan) ==
    IF plan.cached_data_key \notin {None, ""}
    THEN GetQueryResult(c.heap, c.store, c.tk.session_id, plan.cached_data_key)
    ELSE GetLatestQueryResult(c.heap, c.store, c.tk.session_id)

\* route_to_database_query up to the await of its first attempt
RouteToDatabaseQuery(c) ==
    [c EXCEPT !.tk.pc = "fetching",
              !.tk.attempt = 0,
              !.tk.user_message = c.tk.content,
              !.ob.fetch_inputs = Append(@, c.tk.content)]

\* ExecutePlan that goes on without an outcome when the cache lookup misses
ExecutePlanWithoutFallback(c, cancelled) ==
    LET plan == c.tk.plan_or_clarification[1].plan[1] IN
    IF cancelled THEN RaiseCancelled(c)
    ELSE IF ~NeedsData(plan) THEN AfterExecutePlan(c, cancelled)
    ELSE IF plan.use_cached_data
    THEN AfterExecutePlan(
            [c EXCEPT !.tk.agent_output = CachedOutput(c, plan),
                      !.ob.cache_lookups =
                            Append(@, [key |-> plan.cached_data_key,
                                       found |-> CachedOutput(c, plan)])],
            cancelled)
    ELSE RouteToDatabaseQuery(c)

\* _execute_plan up to its first await, or to the end of chat's synchronous part
ExecutePlan(c, cancelled) ==
    LET plan == c.tk.plan_or_clarification[1].plan[1] IN
    IF cancelled THEN RaiseCancelled(c)
    ELSE IF ~NeedsData(plan) THEN AfterExecutePlan(c, cancelled)
    ELSE LET c1 == IF plan.use_cached_data
                   THEN [c EXCEPT !.ob.cache_lookups =
                            Append(@, [key |-> plan.cached_data_key,
                                       found |-> CachedOutput(c, plan)])]
                   ELSE c
         IN  IF plan.use_cached_data /\ CachedOutput(c, plan) # <<>>
             THEN AfterExecutePlan([c1 EXCEPT !.tk.agent_output = CachedOutput(c, plan)], cancelled)
             ELSE RouteToDatabaseQuery(
                    [c1 EXCEPT !.tk.plan_or_clarification[1].plan[1].use_cached_data = FALSE])

\* StoreInCache that leaves a "latest" entry the cache already holds
StoreInCacheKeepingLatest(c, agent_output, timestamp) ==
    LET s1 == StoreQueryResult(c.heap, c.store, c.tk.session_id,
                               CacheKey(agent_output.sql_query, timestamp), agent_output)
        s2 == IF GetQueryResult(s1.heap, s1.store, c.tk.session_id, "latest") # <<>>
              THEN s1
              ELSE StoreQueryResult(s1.heap, s1.store, c.tk.session_id, "latest", agent_output)
    IN  [c EXCEPT !.heap = ClearOldResults(s2.heap, s2.store, c.tk.session_id, keep_last_n),
                  !.store = s2.store]

\* the cache after _execute_plan stored the successful agent_output
StoreInCache(c, agent_output, timestamp) ==
    LET s1 == StoreQueryResult(c.heap, c.store, c.tk.session_id,
                               CacheKey(agent_output.sql_query, timestamp), agent_output)
        s2 == StoreQueryResult(s1.heap, s1.store, c.tk.session_id, "latest", agent_output)
    IN  [c EXCEPT !.heap = ClearOldResults(s2.heap, s2.store, c.tk.session_id, keep_last_n),
                  !.store = s2.store]

\* AfterRoute that stores the outcome whether the fetch succeeded or not
AfterRouteStoringFailures(c, agent_output, cancelled, timestamp) ==
    LET c1 == [c EXCEPT !.tk.agent_output = <<agent_output>>,
                        !.ob.router_result = <<agent_output>>,
                        !.fx[c.tk.session_id].success =
                            IF agent_output.success THEN <<agent_output>> ELSE @] IN
    IF cancelled THEN RaiseCancelled(c1)
    ELSE AfterExecutePlan(
            StoreInCache([c1 EXCEPT !.fx[c.tk.session_id].stored = <<agent_output>>],
                         agent_output, timestamp),
            cancelled)

\* _execute_plan from the return of route_to_database_query
AfterRoute(c, agent_output, cancelled, timestamp) ==
    LET c1 == [c EXCEPT !.tk.agent_output = <<agent_output>>,
                        !.ob.router_result = <<agent_output>>,
                        !.fx[c.tk.session_id].success =
                            IF agent_output.success THEN <<agent_output>> ELSE @] IN
    IF cancelled THEN RaiseCancelled(c1)
    ELSE IF agent_output.success
    THEN AfterExecutePlan(
            StoreInCache([c1 EXCEPT !.fx[c.tk.session_id].stored = <<agent_output>>],
                         agent_output, timestamp),
            cancelled)
    ELSE AfterExecutePlan(c1, cancelled)

\* TRUE when the return of an attempt leads _execute_plan to read time.time()
ReadsClock(attempt, agent_output, cancelled) ==
    ~ShouldRetry(attempt, agent_output) /\ ~cancelled /\ agent_output.success

\* AfterAttempt with the error context added to the input of the failed attempt
AfterAttemptAccumulating(c, agent_output, cancelled, timestamp) ==
    LET c1 == [c EXCEPT !.ob.fetch_outputs = Append(@, agent_output)] IN
    IF ShouldRetry(c.tk.attempt, agent_output)
    THEN [c1 EXCEPT
            !.tk.attempt = @ + 1,
            !.tk.user_message = RetryMessage(c.tk.user_message, agent_output),
            !.ob.fetch_inputs = Append(@, RetryMessage(c.tk.user_message, agent_output))]
    ELSE AfterRoute(c1, agent_output, cancelled, timestamp)

\* route_to_database_query from the return of an attempt
AfterAttempt(c, agent_output, cancelled, timestamp) ==
    LET c1 == [c EXCEPT !.ob.fetch_outputs = Append(@, agent_output)] IN
    IF ShouldRetry(c.tk.attempt, agent_output)
    THEN [c1 EXCEPT
            !.tk.attempt = @ + 1,
            !.tk.user_message = RetryMessage(c.tk.content, agent_output),
            !.ob.fetch_inputs = Append(@, RetryMessage(c.tk.content, agent_output))]
    ELSE AfterRoute(c1, agent_output, cancelled, timestamp)

\* chat from the return of the planner
AfterPlanner(c, cancelled) ==
    IF cancelled THEN RaiseCancelled(c)
    ELSE IF c.tk.plan_or_clarification[1].isstr
    THEN HandleClarificationRequest(c,
            [intent_type |-> "database_query",
             clarification_question |-> c.tk.plan_or_clarification[1].text])
    ELSE ExecutePlan(c, cancelled)

\* the text chat hands to the planner
PlannerText(c) == c.tk.content

\* chat from the return of _prepare_session_and_history to the await of the planner
AfterPrepare(c, cancelled) ==
    LET c1 == [c EXCEPT !.ob.hist_planning = c.heap[c.tk.session_state].message_history] IN
    IF cancelled THEN RaiseCancelled(c1)
    ELSE LET c2 == [c1 EXCEPT !.heap[c.tk.session_state] =
                        AddMessageToHistory(@, <<UserMsg(c.tk.content)>>, <<>>)]
         IN  [c2 EXCEPT
                !.tk.pc = "planning",
                !.ob.planner_inputs =
                    Append(@, [text |-> PlannerText(c2),
                               history |-> c2.heap[c.tk.session_state].message_history])]

\* StartChat that checks for cancellation only after the session is prepared
StartChatCheckingLate(c, session_input, content, message_history, cancelled) ==
    LET session_id == IF session_input = None THEN "default" ELSE session_input
        g == GetOrCreateSession(c.heap, c.store, session_id, message_history)
        session == g.heap[g.obj]
        c1 == [heap |-> g.heap, store |-> g.store, fx |-> c.fx,
               tk |-> [IdleTask EXCEPT !.session_id = session_id,
                                       !.content = content,
                                       !.session_state = g.obj],
               ob |-> [NoObs EXCEPT !.hist_before = session.message_history,
                                    !.pending_before = session.pending_clarification,
                                    !.cache_before = session.cached_query_results]]
    IN  IF cancelled
        THEN RaiseCancelled([c1 EXCEPT !.tk = IdleTask,
                                       !.ob = [NoObs EXCEPT !.cancel_pc = "start"]])
        ELSE IF NeedsSummary(session.message_history)
        THEN [c1 EXCEPT !.tk.pc = "summarizing",
                        !.tk.recent_messages = RecentMessages(session.message_history),
                        !.ob.summarizer_calls = @ + 1]
        ELSE AfterPrepare(c1, cancelled)

\* chat from its call to its first await
StartChat(c, session_input, content, message_history, cancelled) ==
    IF cancelled
    THEN RaiseCancelled([c EXCEPT !.tk = IdleTask, !.ob = [NoObs EXCEPT !.cancel_pc = "start"]])
    ELSE
    LET session_id == IF session_input = None THEN "default" ELSE session_input
        g == GetOrCreateSession(c.heap, c.store, session_id, message_history)
        session == g.heap[g.obj]
        c1 == [heap |-> g.heap, store |-> g.store, fx |-> c.fx,
               tk |-> [IdleTask EXCEPT !.session_id = session_id,
                                       !.content = content,
                                       !.session_state = g.obj],
               ob |-> [NoObs EXCEPT !.hist_before = session.message_history,
                                    !.pending_before = session.pending_clarification,
                                    !.cache_before = session.cached_query_results]]
    IN  IF NeedsSummary(session.message_history)
        THEN [c1 EXCEPT !.tk.pc = "summarizing",
                        !.tk.recent_messages = RecentMessages(session.message_history),
                        !.ob.summarizer_calls = @ + 1]
        ELSE AfterPrepare(c1, cancelled)

-----------------------------------------------------------------------------
(* Actions *)

Ctx(t) == [heap |-> heap, store |-> store, tk |-> task[t], ob |-> obs[t], fx |-> fetched]

Commit(t, c) ==
    /\ heap' = c.heap
    /\ store' = c.store
    /\ task' = [task EXCEPT ![t] = c.tk]
    /\ obs' = [obs EXCEPT ![t] = c.ob]
    /\ fetched' = c.fx

\* a client calls chat; the messages of one session arrive one after the other
Chat(t, session_input, content, message_history, cancelled) ==
    /\ ~Running(t)
    /\ turns < MaxTurns
    /\ turns' = turns + 1
    /\ cancellation_event' = [cancellation_event EXCEPT ![t] = cancelled]
    /\ Commit(t, StartChat(Ctx(t), session_input, content, message_history,
                            CancellationRequested(cancelled)))
    /\ call' = NoCall
    /\ UNCHANGED now

\* the client sets the turn's cancellation event
Cancel(t) ==
    /\ Running(t)
    /\ ~cancellation_event[t]
    /\ cancellation_event' = [cancellation_event EXCEPT ![t] = TRUE]
    /\ obs' = [obs EXCEPT ![t].cancel_pc = task[t].pc]
    /\ UNCHANGED <<heap, store, task, now, turns, fetched, call>>

\* the summarizer answers
SummarizerReturns(t, summary_text) ==
    /\ task[t].pc = "summarizing"
    /\ Commit(t, AfterPrepare(
            [Ctx(t) EXCEPT !.heap[task[t].session_state].message_history =
                                Summarized(summary_text, task[t].recent_messages),
                           !.ob.summarizer_outcome = "returned"],
            CancellationRequested(cancellation_event[t])))
    /\ UNCHANGED <<cancellation_event, now, turns, call>>

\* SummarizerRaises that goes on with an empty history
SummarizerRaisesAndClears(t) ==
    /\ task[t].pc = "summarizing"
    /\ Commit(t, AfterPrepare(
            [Ctx(t) EXCEPT !.heap[task[t].session_state].message_history = <<>>,
                           !.ob.summarizer_outcome = "raised"],
            CancellationRequested(cancellation_event[t])))
    /\ UNCHANGED <<cancellation_event, now, turns, call>>

\* the summarizer raises: summarize_if_needed returns the messages it was given
SummarizerRaises(t) ==
    /\ task[t].pc = "summarizing"
    /\ Commit(t, AfterPrepare([Ctx(t) EXCEPT !.ob.summarizer_outcome = "raised"],
                               CancellationRequested(cancellation_event[t])))
    /\ UNCHANGED <<cancellation_event, now, turns, call>>

\* the planner's run completes with its output
PlannerReturns(t, output) ==
    /\ task[t].pc = "planning"
    /\ task' = [task EXCEPT ![t].pc = "planned", ![t].plan_or_clarification = <<output>>]
    /\ UNCHANGED <<heap, store, cancellation_event, now, turns, obs, fetched, call>>

\* the turn resumes after the planner
ResumeAfterPlanner(t) ==
    /\ task[t].pc = "planned"
    /\ Commit(t, AfterPlanner(Ctx(t), CancellationRequested(cancellation_event[t])))
    /\ UNCHANGED <<cancellation_event, now, turns, call>>

\* an attempt of the database query agent returns
FetchReturns(t, agent_output, timestamp) ==
    /\ task[t].pc = "fetching"
    /\ timestamp >= now
    /\ Commit(t, AfterAttempt(Ctx(t), agent_output, CancellationRequested(cancellation_event[t]), timestamp))
    /\ now' = IF ReadsClock(task[t].attempt, agent_output, CancellationRequested(cancellation_event[t]))
              THEN timestamp ELSE now
    /\ UNCHANGED <<cancellation_event, turns, call>>

\* SynthReturns that appends the assistant message only after a successful fetch
SynthReturnsAppendsOnSuccess(t, out) ==
    /\ task[t].pc = "synthesizing"
    /\ LET plan == task[t].plan_or_clarification[1].plan[1]
           failed == task[t].agent_output # <<>> /\ ~task[t].agent_output[1].success
       IN
       Commit(t, [Ctx(t) EXCEPT
            !.heap[task[t].session_state] =
                AddMessageToHistory(@, <<>>,
                    IF failed THEN <<>> ELSE <<AssistantMsg(out.message)>>),
            !.tk.pc = "done",
            !.tk.response =
                [kind |-> "response",
                 message |-> out.message,
                 requires_followup |-> out.requires_followup,
                 metadata |-> [intent_type |-> plan.intent_type,
                               requires_clarification |-> FALSE,
                               requires_database |-> plan.intent_type = "database_query",
                               session_id |-> task[t].session_id]]])
    /\ UNCHANGED <<cancellation_event, now, turns, call>>

\* the synthesizer returns: _finalize_response appends the assistant message
SynthReturns(t, out) ==
    /\ task[t].pc = "synthesizing"
    /\ LET plan == task[t].plan_or_clarification[1].plan[1] IN
       Commit(t, [Ctx(t) EXCEPT
            !.heap[task[t].session_state] =
                AddMessageToHistory(@, <<>>, <<AssistantMsg(out.message)>>),
            !.tk.pc = "done",
            !.tk.response =
                [kind |-> "response",
                 message |-> out.message,
                 requires_followup |-> out.requires_followup,
                 metadata |-> [intent_type |-> plan.intent_type,
                               requires_clarification |-> FALSE,
                               requires_database |-> plan.intent_type = "database_query",
                               session_id |-> task[t].session_id]]])
    /\ UNCHANGED <<cancellation_event, now, turns, call>>

Init ==
    /\ heap = <<>>
    /\ store = [s \in SessionIds |-> 0]
    /\ task = [t \in Tasks |-> IdleTask]
    /\ cancellation_event = [t \in Tasks |-> FALSE]
    /\ now = 0
    /\ turns = 0
    /\ obs = [t \in Tasks |-> NoObs]
    /\ fetched = [s \in SessionIds |-> NoFetch]
    /\ call = NoCall

Next ==
    \/ \E t \in OneTask, s \in OneSession, x \in UserTexts, h \in Seeds, c \in BOOLEAN :
            Chat(t, s, x, h, c)
    \/ \E t \in OneTask : Cancel(t)
    \/ \E t \in OneTask, s \in SummaryTexts : SummarizerReturns(t, s)
    \/ \E t \in OneTask : SummarizerRaises(t)
    \/ \E t \in OneTask, o \in PlannerOutputs : PlannerReturns(t, o)
    \/ \E t \in OneTask : ResumeAfterPlanner(t)
    \/ \E t \in OneTask, o \in QueryAgentOutputs, ts \in 0..MaxClock : FetchReturns(t, o, ts)
    \/ \E t \in OneTask, o \in SynthOutputs : SynthReturns(t, o)

Spec == Init /\ [][Next]_vars

-----------------------------------------------------------------------------
(* The same turns on a session that has already cached four fetches *)

\* the successful outcomes of the session's earlier turns, oldest first
WarmFetches ==
    <<QueryAgentOutput("q3", TRUE, None, FALSE, None),
      QueryAgentOutput("q4", TRUE, None, FALSE, None),
      QueryAgentOutput("q1", TRUE, None, FALSE, None),
      QueryAgentOutput("q2", TRUE, None, FALSE, None)>>

\* the cache after _execute_plan stored the first k of them, all at time 0
RECURSIVE WarmCache(_)
WarmCache(k) ==
    IF k = 0 THEN <<>>
    ELSE KeepLastN(
            DictSet(DictSet(WarmCache(k - 1),
                            CacheKey(WarmFetches[k].sql_query, 0), WarmFetches[k]),
                    "latest", WarmFetches[k]),
            keep_last_n)

\* the history the session's earlier turns left, a user and an assistant
\* message each: the four that fetched and six general questions
WarmHistory ==
    [i \in 1..MAX_MESSAGES |->
        IF i % 2 = 1 THEN UserMsg("a") ELSE AssistantMsg("ans")]

WarmInit ==
    /\ heap = <<[NewSession(WarmHistory) EXCEPT
                    !.cached_query_results = WarmCache(Len(WarmFetches))]>>
    /\ store = [s \in SessionIds |-> IF s = "default" THEN 1 ELSE 0]
    /\ task = [t \in Tasks |-> IdleTask]
    /\ cancellation_event = [t \in Tasks |-> FALSE]
    /\ now = 0
    /\ turns = 0
    /\ obs = [t \in Tasks |-> NoObs]
    /\ fetched = [s \in SessionIds |->
                    IF s = "default"
                    THEN [success |-> <<WarmFetches[Len(WarmFetches)]>>,
                          stored |-> <<WarmFetches[Len(WarmFetches)]>>]
                    ELSE NoFetch]
    /\ call = NoCall

SpecWarm == WarmInit /\ [][Next]_vars

-----------------------------------------------------------------------------
(* The SessionManager's cache operations called directly *)

CacheKeys == {"latest", "k1", "k2", "k3"}
CacheValues ==
    {QueryAgentOutput("q1", TRUE, None, FALSE, None),
     QueryAgentOutput("q2", TRUE, None, FALSE, None)}

CallStoreQueryResult(session_id, key, result) ==
    /\ heap' = StoreQueryResult(heap, store, session_id, key, result).heap
    /\ store' = StoreQueryResult(heap, store, session_id, key, result).store
    /\ call' = [NoCall EXCEPT !.op = "store_query_result", !.session_id = session_id,
                              !.key = key, !.result = <<result>>,
                              !.before = StoredSessions(heap, store)]
    /\ UNCHANGED <<task, cancellation_event, now, turns, obs, fetched>>

CallClearOldResults(session_id, n) ==
    /\ heap' = ClearOldResults(heap, store, session_id, n)
    /\ call' = [NoCall EXCEPT !.op = "clear_old_results", !.session_id = session_id,
                              !.n = n, !.before = StoredSessions(heap, store)]
    /\ UNCHANGED <<store, task, cancellation_event, now, turns, obs, fetched>>

NextCache ==
    \/ \E k \in CacheKeys, v \in CacheValues : CallStoreQueryResult("default", k, v)
    \/ \E n \in 0..MaxKeep : CallClearOldResults("default", n)

SpecCache == Init /\ [][NextCache]_vars

-----------------------------------------------------------------------------
(* The SessionManager's session operations and reset called directly *)

\* histories a caller hands to get_or_create_session
StoreSeeds == {<<>>, <<UserMsg("old"), AssistantMsg("old")>>, <<UserMsg("new")>>}

CallGetOrCreateSession(session_id, message_history) ==
    /\ heap' = GetOrCreateSession(heap, store, session_id, message_history).heap
    /\ store' = GetOrCreateSession(heap, store, session_id, message_history).store
    /\ call' = [NoCall EXCEPT !.op = "get_or_create_session", !.session_id = session_id,
                              !.message_history = message_history,
                              !.before = StoredSessions(heap, store)]
    /\ UNCHANGED <<task, cancellation_event, now, turns, obs, fetched>>

\* OrchestratorAgent.reset: reset_session for an id, reset_all_sessions without
Reset(session_id) ==
    /\ store' = IF session_id \in {None, ""}
                THEN [s \in SessionIds |-> 0]
                ELSE [store EXCEPT ![session_id] = 0]
    /\ fetched' = [s \in SessionIds |->
                    IF session_id \in {None, "", s} THEN NoFetch ELSE fetched[s]]
    /\ call' = [NoCall EXCEPT !.op = "reset", !.session_id = session_id,
                              !.before = StoredSessions(heap, store)]
    /\ UNCHANGED <<heap, task, cancellation_event, now, turns, obs>>

\* TRUE when a call for session_id gets by with the objects of the model
HasRoom(session_id) == store[session_id] # 0 \/ Len(heap) < MaxObjects

NextStore ==
    \/ \E s \in SessionIds, h \in StoreSeeds :
            HasRoom(s) /\ CallGetOrCreateSession(s, h)
    \/ \E s \in SessionIds :
            HasRoom(s) /\ CallStoreQueryResult(s, "latest", QueryAgentOutput("q1", TRUE, None, FALSE, None))
    \/ \E s \in SessionIds \cup {None} : Reset(s)

SpecStore == Init /\ [][NextStore]_vars

-----------------------------------------------------------------------------
(* Turns of two sessions, one after the other, and resets at any time *)

\* user_input.session_id of the clients
TwoSessions == {None, "s1"}

\* histories the API hands to chat
ShortSeeds == {<<>>, <<UserMsg("old"), AssistantMsg("old")>>}

\* the planner's plans that run a fresh query and draw no plot
FreshPlannerOutputs ==
    {o \in PlannerOutputs :
        /\ ~o.isstr
        /\ ~o.plan[1].use_cached_data
        /\ ~o.plan[1].requires_plot}

\* the query agent's successful outputs
SuccessfulOutputs == {o \in QueryAgentOutputs : o.success}

NextReset ==
    \/ \E t \in OneTask, s \in TwoSessions, h \in ShortSeeds : Chat(t, s, "a", h, FALSE)
    \/ \E t \in OneTask, o \in FreshPlannerOutputs : PlannerReturns(t, o)
    \/ \E t \in OneTask : ResumeAfterPlanner(t)
    \/ \E t \in OneTask, o \in SuccessfulOutputs : FetchReturns(t, o, 0)
    \/ \E t \in OneTask, o \in SynthOutputs : SynthReturns(t, o)
    \/ \E s \in {None, "s1"} : Reset(s)

SpecReset == Init /\ [][NextReset]_vars

-----------------------------------------------------------------------------
(* Two coroutines run chat on the one event loop: between two awaits a turn
   runs alone, and at each await the other turn may run *)

\* user_input.content of the message that coroutine t handles
ContentOf(t) == IF t = "t1" THEN "a" ELSE "b"

\* the planner's outputs that read no cached data and draw no plot: a
\* clarification question, a fresh query, a general question
PlainPlannerOutputs ==
    {o \in PlannerOutputs : o.isstr \/ o \in FreshPlannerOutputs}

NextConcurrent ==
    \/ \E t \in Tasks, s \in TwoSessions : Chat(t, s, ContentOf(t), <<>>, FALSE)
    \/ \E t \in Tasks, o \in PlainPlannerOutputs : PlannerReturns(t, o)
    \/ \E t \in Tasks : ResumeAfterPlanner(t)
    \/ \E t \in Tasks, o \in SuccessfulOutputs : FetchReturns(t, o, 0)
    \/ \E t \in Tasks, o \in SynthOutputs : SynthReturns(t, o)

SpecConcurrent == Init /\ [][NextConcurrent]_vars

-----------------------------------------------------------------------------
(* Turns whose capability calls may raise *)

\* the coroutine's await raises: nothing in chat catches the exception, and it
\* leaves chat as it came
Propagate(t, capability) ==
    /\ task' = [task EXCEPT ![t].pc = "done", ![t].response = FailedResponse]
    /\ obs' = [obs EXCEPT ![t].raised = capability]
    /\ UNCHANGED <<heap, store, cancellation_event, now, turns, fetched, call>>

\* the planner's run raises
PlannerRaises(t) ==
    /\ task[t].pc = "planning"
    /\ Propagate(t, "planner")

\* an attempt of the database query agent raises
FetchRaises(t) ==
    /\ task[t].pc = "fetching"
    /\ Propagate(t, "fetch")

\* SynthRaises that answers with an apology instead
SynthRaisesAndApologizes(t) ==
    /\ task[t].pc = "synthesizing"
    /\ heap' = [heap EXCEPT ![task[t].session_state] =
                    AddMessageToHistory(@, <<>>, <<AssistantMsg("sorry")>>)]
    /\ task' = [task EXCEPT ![t].pc = "done", ![t].response = FailedResponse]
    /\ obs' = [obs EXCEPT ![t].raised = "synthesizer"]
    /\ UNCHANGED <<store, cancellation_event, now, turns, fetched, call>>

\* the synthesizer's run raises
SynthRaises(t) ==
    /\ task[t].pc = "synthesizing"
    /\ Propagate(t, "synthesizer")

NextFailure ==
    \/ \E t \in OneTask, x \in UserTexts : Chat(t, None, x, <<>>, FALSE)
    \/ \E t \in OneTask, o \in PlannerOutputs : PlannerReturns(t, o)
    \/ \E t \in OneTask : PlannerRaises(t)
    \/ \E t \in OneTask : ResumeAfterPlanner(t)
    \/ \E t \in OneTask, o \in QueryAgentOutputs : FetchReturns(t, o, 0)
    \/ \E t \in OneTask : FetchRaises(t)
    \/ \E t \in OneTask, o \in SynthOutputs : SynthReturns(t, o)
    \/ \E t \in OneTask : SynthRaises(t)

SpecFailure == Init /\ [][NextFailure]_vars

-----------------------------------------------------------------------------
(* Turns whose capability calls all end: each returns or raises *)

\* the call t's turn is suspended in ends, or the turn resumes after it
Advance(t) ==
    \/ \E s \in SummaryTexts : SummarizerReturns(t, s)
    \/ SummarizerRaises(t)
    \/ \E o \in PlannerOutputs : PlannerReturns(t, o)
    \/ PlannerRaises(t)
    \/ ResumeAfterPlanner(t)
    \/ \E o \in QueryAgentOutputs : FetchReturns(t, o, 0)
    \/ FetchRaises(t)
    \/ \E o \in SynthOutputs : SynthReturns(t, o)
    \/ SynthRaises(t)

NextTermination ==
    \/ \E t \in OneTask, h \in Seeds, c \in BOOLEAN : Chat(t, None, "a", h, c)
    \/ \E t \in OneTask : Cancel(t)
    \/ \E t \in OneTask : Advance(t)

SpecTermination ==
    Init /\ [][NextTermination]_vars /\ \A t \in OneTask : WF_vars(Advance(t))

-----------------------------------------------------------------------------
(* Two coroutines run chat for the one session whose history is at
   MAX_MESSAGES: the second message finds it over the threshold *)

NextCompaction ==
    \/ \E t \in Tasks : Chat(t, None, ContentOf(t), <<>>, FALSE)
    \/ \E t \in Tasks, s \in SummaryTexts : SummarizerReturns(t, s)
    \/ \E t \in Tasks : SummarizerRaises(t)
    \/ \E t \in Tasks, o \in PlainPlannerOutputs : PlannerReturns(t, o)
    \/ \E t \in Tasks : ResumeAfterPlanner(t)
    \/ \E t \in Tasks, o \in SuccessfulOutputs : FetchReturns(t, o, 0)
    \/ \E t \in Tasks, o \in SynthOutputs : SynthReturns(t, o)

SpecCompaction == WarmInit /\ [][NextCompaction]_vars

-----------------------------------------------------------------------------
(* Properties *)

\* the session state the turn of t works on
Session(t) == heap[task[t].session_state]

\* TRUE when the planner of t's turn has returned an ExecutionPlan
ReturnedPlan(t) ==
    task[t].plan_or_clarification # <<>> /\ ~task[t].plan_or_clarification[1].isstr

\* TRUE when the planner of t's turn has returned a clarification string
ReturnedString(t) ==
    task[t].plan_or_clarification # <<>> /\ task[t].plan_or_clarification[1].isstr

\* the messages the turn of t has appended since the start of its Planning stage
Appended(t) ==
    LET h == Session(t).message_history
        n == Len(obs[t].hist_planning)
    IN  IF Len(h) <= n THEN <<>> ELSE SubSeq(h, n + 1, Len(h))

\* C1: a turn cancelled after the planner returned a Plan and before Executing
\* aborts with cancellation and leaves the session's history as it was before
\* the turn: no user turn and no assistant turn appended.
C1_CancelAfterPlanningLeavesHistory ==
    \A t \in Tasks :
        (task[t].pc = "done" /\ obs[t].cancel_pc = "planned" /\ ReturnedPlan(t))
            => /\ task[t].response.kind = "cancelled"
               /\ Session(t).message_history = obs[t].hist_before

\* C2: once the event is set after the planner returned a Plan and before
\* Executing, the database query agent is never invoked in that turn.
C2_NoFetchAfterCancelAtPlanning ==
    \A t \in Tasks :
        (obs[t].cancel_pc = "planned" /\ ReturnedPlan(t))
            => /\ obs[t].fetch_inputs = <<>>
               /\ task[t].pc \in {"planned", "done"}
               /\ (task[t].pc = "done" => task[t].response.kind = "cancelled")

\* a turn cancelled between the planner's return of a plan that needs a fresh
\* fetch and the Executing stage has ended, cancelled
C2_Witness ==
    \E t \in Tasks :
        /\ task[t].pc = "done"
        /\ obs[t].cancel_pc = "planned"
        /\ ReturnedPlan(t)
        /\ NeedsData(task[t].plan_or_clarification[1].plan[1])
        /\ ~task[t].plan_or_clarification[1].plan[1].use_cached_data
        /\ task[t].response.kind = "cancelled"

\* C3: when the event is set while an attempt is in flight and the attempt
\* fails, the step that handles its return starts no further attempt and
\* signals cancellation.
C3_NoAttemptAfterCancel ==
    [][\A t \in Tasks :
        (/\ task[t].pc = "fetching"
         /\ cancellation_event[t]
         /\ Len(obs'[t].fetch_outputs) = Len(obs[t].fetch_outputs) + 1
         /\ ~obs'[t].fetch_outputs[Len(obs'[t].fetch_outputs)].success)
            => /\ obs'[t].fetch_inputs = obs[t].fetch_inputs
               /\ task'[t].pc = "done"
               /\ task'[t].response.kind = "cancelled"]_vars

\* C4: a turn whose event was set before it returned has appended no
\* assistant turn to the history.
C4_CancelledTurnAppendsNoAssistant ==
    \A t \in Tasks :
        (task[t].pc = "done" /\ cancellation_event[t] /\ task[t].session_state # 0)
            => \A i \in 1..Len(Appended(t)) : Appended(t)[i].role # "assistant"

\* C5: the turn that follows a clarification leaves PendingClarification
\* empty unless it ends in a clarification itself.
C5_NextMessageClearsPending ==
    \A t \in Tasks :
        (/\ task[t].pc = "done"
         /\ obs[t].pending_before # <<>>
         /\ task[t].response.kind = "response"
         /\ ~task[t].response.metadata.requires_clarification)
            => Session(t).pending_clarification = <<>>

\* C6: with PendingClarification holding original text O, the planner is
\* handed O + "\n\n[Clarification response]: " + T for the next message T.
C6_PlannerGetsCombinedMessage ==
    \A t \in Tasks :
        (obs[t].pending_before # <<>> /\ obs[t].planner_inputs # <<>>)
            => obs[t].planner_inputs[1].text =
                    CombinedMessage(obs[t].pending_before[1].original_message,
                                    task[t].content)

\* C7: a turn that ends in a clarification has appended exactly the user's
\* turn and the clarification question to the history of its Planning stage.
C7_ClarificationAppendsTwo ==
    \A t \in Tasks :
        (/\ task[t].pc = "done"
         /\ task[t].response.kind = "response"
         /\ task[t].response.metadata.requires_clarification)
            => Appended(t) = <<UserMsg(task[t].content),
                               AssistantMsg(task[t].response.message)>>

\* C8: when the planner returns a clarification string the turn is terminal:
\* no fetch and no synthesis is invoked, the cache is unchanged, and unless the
\* turn is cancelled it ends with PendingClarification holding the user's text
\* and a follow-up response whose message is the string.
C8_ClarificationStringIsTerminal ==
    \A t \in Tasks :
        ReturnedString(t)
            => /\ obs[t].fetch_inputs = <<>>
               /\ obs[t].synth_inputs = <<>>
               /\ Session(t).cached_query_results = obs[t].cache_before
               /\ task[t].pc \in {"planned", "done"}
               /\ (task[t].pc = "done" /\ ~cancellation_event[t])
                    => /\ Session(t).pending_clarification # <<>>
                       /\ Session(t).pending_clarification[1].original_message
                            = task[t].content
                       /\ task[t].response.kind = "response"
                       /\ task[t].response.requires_followup
                       /\ task[t].response.message
                            = task[t].plan_or_clarification[1].text

\* a turn has ended in the clarification the planner asked for
C8_Witness ==
    \E t \in Tasks :
        /\ task[t].pc = "done"
        /\ ReturnedString(t)
        /\ task[t].response.kind = "response"
        /\ Session(t).pending_clarification # <<>>

\* TRUE when route_to_database_query has returned in t's turn
RouterReturned(t) == obs[t].router_result # <<>>

AllFailed(outputs) == \A i \in 1..Len(outputs) : ~outputs[i].success

\* C9: a run of the retrying executor in which every attempt fails makes
\* exactly max_retries + 1 attempts and returns the outcome of the last one.
C9_AlwaysFailingRunsAllAttempts ==
    \A t \in Tasks :
        /\ Len(obs[t].fetch_inputs) <= max_retries + 1
        /\ (RouterReturned(t) /\ AllFailed(obs[t].fetch_outputs))
            => /\ Len(obs[t].fetch_inputs) = max_retries + 1
               /\ Len(obs[t].fetch_outputs) = max_retries + 1
               /\ obs[t].router_result[1] = obs[t].fetch_outputs[max_retries + 1]

\* a run has returned after failed attempts of which the first and the last
\* had different outcomes
C9_Witness ==
    \E t \in Tasks :
        /\ RouterReturned(t)
        /\ AllFailed(obs[t].fetch_outputs)
        /\ Len(obs[t].fetch_outputs) = max_retries + 1
        /\ obs[t].fetch_outputs[1] # obs[t].fetch_outputs[max_retries + 1]

\* C10: no attempt follows a successful one: the run returns the first
\* successful outcome at once, after exactly as many invocations as attempts
\* up to and including it.
C10_SuccessReturnsImmediately ==
    \A t \in Tasks :
        LET outputs == obs[t].fetch_outputs
            k == Len(outputs)
        IN  /\ \A i \in 1..(Len(obs[t].fetch_inputs) - 1) :
                    i <= k /\ ~outputs[i].success
            /\ (k > 0 /\ outputs[k].success)
                => /\ RouterReturned(t)
                   /\ obs[t].router_result[1] = outputs[k]
                   /\ Len(obs[t].fetch_inputs) = k

\* a run has returned the successful outcome of its second attempt
C10_Witness ==
    \E t \in Tasks :
        /\ RouterReturned(t)
        /\ Len(obs[t].fetch_outputs) = 2
        /\ Len(obs[t].fetch_inputs) = 2
        /\ obs[t].fetch_outputs[2].success
        /\ obs[t].router_result[1] = obs[t].fetch_outputs[2]

\* the error message route_to_database_query reads from a failed attempt
ErrorOf(agent_output) ==
    IF agent_output.error \in {None, ""} THEN "Unknown error" ELSE agent_output.error

\* C11: the first attempt of a turn receives the turn's text unchanged, and
\* every later attempt receives that text followed by the one error block
\* built from the expression and error of the attempt just before it; the
\* blocks of earlier failures are not in it.
C11_RetryInputIsOriginalPlusLastError ==
    \A t \in Tasks :
        LET inputs == obs[t].fetch_inputs
            outputs == obs[t].fetch_outputs
        IN  \A i \in 1..Len(inputs) :
                IF i = 1 THEN inputs[i] = task[t].content
                ELSE /\ i - 1 <= Len(outputs)
                     /\ inputs[i] = task[t].content
                            \o BuildErrorContext(ErrorOf(outputs[i - 1]),
                                                 outputs[i - 1].sql_query)

\* a third attempt has been started after two failures with different
\* expressions and errors
C11_Witness ==
    \E t \in Tasks :
        /\ Len(obs[t].fetch_inputs) = max_retries + 1
        /\ Len(obs[t].fetch_outputs) >= 2
        /\ obs[t].fetch_outputs[1].sql_query # obs[t].fetch_outputs[2].sql_query
        /\ ErrorOf(obs[t].fetch_outputs[1]) # ErrorOf(obs[t].fetch_outputs[2])
        /\ obs[t].fetch_inputs[3] # obs[t].fetch_inputs[2]

\* TRUE when t's turn has ended in a clarification asked for after Executing
FetchLevelClarification(t) ==
    /\ task[t].pc = "done"
    /\ ReturnedPlan(t)
    /\ task[t].response.kind = "response"
    /\ task[t].response.metadata.requires_clarification

\* C12: in every turn that ends in a fetch-level clarification, the database
\* query agent was invoked max_retries + 1 times in that turn and every
\* attempt failed.
C12_ClarificationOnlyAfterBudget ==
    \A t \in Tasks :
        FetchLevelClarification(t)
            => /\ Len(obs[t].fetch_inputs) = max_retries + 1
               /\ Len(obs[t].fetch_outputs) = max_retries + 1
               /\ AllFailed(obs[t].fetch_outputs)

\* TRUE when _execute_plan has returned an outcome to chat in t's turn
ExecutingReturnedOutcome(t) ==
    task[t].agent_output # <<>> /\ task[t].response.kind # "cancelled"

\* C13: when the outcome the Executing stage returned has
\* requires_clarification set, the turn ends there: the synthesizer is not
\* invoked, the session's PendingClarification holds the turn's text, and the
\* response has requires_followup set.
C13_ClarifyingOutcomeIsTerminal ==
    \A t \in Tasks :
        (ExecutingReturnedOutcome(t) /\ task[t].agent_output[1].requires_clarification)
            => /\ task[t].pc = "done"
               /\ obs[t].synth_inputs = <<>>
               /\ Session(t).pending_clarification # <<>>
               /\ Session(t).pending_clarification[1].original_message = task[t].content
               /\ task[t].response.kind = "response"
               /\ task[t].response.requires_followup
               /\ task[t].response.metadata.requires_clarification

\* a turn has ended in the clarification its third failed attempt asked for
C13_Witness ==
    \E t \in Tasks :
        /\ FetchLevelClarification(t)
        /\ Len(obs[t].fetch_outputs) = max_retries + 1
        /\ task[t].agent_output = <<obs[t].fetch_outputs[max_retries + 1]>>
        /\ task[t].agent_output[1].requires_clarification
        /\ task[t].response.message = task[t].agent_output[1].clarification_question

\* the ExecutionPlan of t's turn
PlanOf(t) == task[t].plan_or_clarification[1].plan[1]

\* TRUE when t's turn has passed Executing without being cancelled
PassedExecuting(t) ==
    \/ task[t].pc = "synthesizing"
    \/ task[t].pc = "done" /\ task[t].response.kind = "response"

\* C14: for a plan with intent general_question and no plot, Executing looks
\* nothing up in the cache, invokes no fetch, leaves the cache as it was and
\* hands the synthesizer no outcome; for intent database_query, or
\* general_question with a plot, a turn that passes Executing holds an outcome
\* that came from the cache lookup or from the retrying fetch.
C14_DataOnlyWhenPlanRequires ==
    \A t \in Tasks :
        ReturnedPlan(t) =>
            IF PlanOf(t).intent_type = "general_question" /\ ~PlanOf(t).requires_plot
            THEN /\ obs[t].cache_lookups = <<>>
                 /\ obs[t].fetch_inputs = <<>>
                 /\ task[t].agent_output = <<>>
                 /\ Session(t).cached_query_results = obs[t].cache_before
                 /\ \A i \in 1..Len(obs[t].synth_inputs) : obs[t].synth_inputs[i] = <<>>
            ELSE PassedExecuting(t) =>
                 /\ task[t].agent_output # <<>>
                 /\ \/ /\ obs[t].cache_lookups # <<>>
                       /\ obs[t].cache_lookups[1].found = task[t].agent_output
                       /\ obs[t].fetch_inputs = <<>>
                    \/ /\ obs[t].fetch_inputs # <<>>
                       /\ obs[t].router_result = task[t].agent_output
                 /\ \A i \in 1..Len(obs[t].synth_inputs) :
                        obs[t].synth_inputs[i] = task[t].agent_output

\* the synthesizer has been called without an outcome for a general question
\* with no plot, in a session whose cache holds outcomes
C14_Witness ==
    \E t \in Tasks :
        /\ ReturnedPlan(t)
        /\ PlanOf(t).intent_type = "general_question"
        /\ ~PlanOf(t).requires_plot
        /\ obs[t].cache_before # <<>>
        /\ obs[t].synth_inputs = << <<>> >>

\* the key a cache lookup of _execute_plan asks for
RequestedKey(lookup) == IF lookup.key \in {None, ""} THEN "latest" ELSE lookup.key

\* TRUE when t's turn looked the cache up for a key the session's cache did
\* not hold
CacheMiss(t) ==
    /\ obs[t].cache_lookups # <<>>
    /\ DictGet(obs[t].cache_before, RequestedKey(obs[t].cache_lookups[1])) = <<>>

\* C15: when the plan sets use_cached_data and the requested key ("latest"
\* when none is given) is absent from the session's cache, the turn goes on
\* as a fresh fetch: the retrying executor is invoked with the turn's text,
\* the plan no longer asks for cached data, the outcome the stage returns is
\* the executor's, and a successful one is cached as "latest".
C15_CacheMissFallsBackToFetch ==
    \A t \in Tasks :
        CacheMiss(t)
            => /\ task[t].pc \in {"fetching", "synthesizing", "done"}
               /\ obs[t].fetch_inputs # <<>>
               /\ obs[t].fetch_inputs[1] = task[t].content
               /\ ~PlanOf(t).use_cached_data
               /\ PassedExecuting(t)
                    => /\ obs[t].router_result # <<>>
                       /\ task[t].agent_output = obs[t].router_result
                       /\ obs[t].router_result[1].success
                            => DictGet(Session(t).cached_query_results, "latest")
                                    = obs[t].router_result

\* a turn whose plan asked for a key the non-empty cache did not hold has
\* ended with the outcome of a successful fetch
C15_Witness ==
    \E t \in Tasks :
        /\ CacheMiss(t)
        /\ obs[t].cache_lookups[1].key # None
        /\ obs[t].cache_before # <<>>
        /\ task[t].pc = "done"
        /\ task[t].response.kind = "response"
        /\ obs[t].router_result # <<>>
        /\ obs[t].router_result[1].success

\* TRUE when t's turn looked the cache up for a key the session's cache held
CacheHit(t) ==
    /\ obs[t].cache_lookups # <<>>
    /\ DictGet(obs[t].cache_before, RequestedKey(obs[t].cache_lookups[1])) # <<>>

\* C16: when the plan sets use_cached_data and the requested key ("latest"
\* when none is given) is in the session's cache, the turn uses the outcome
\* cached under that key, never invokes the database query agent, and leaves
\* the cache's keys and values as they were when the turn began.
C16_CacheHitUsesCachedOutcome ==
    \A t \in Tasks :
        CacheHit(t)
            => /\ task[t].pc \in {"synthesizing", "done"}
               /\ task[t].agent_output
                    = DictGet(obs[t].cache_before, RequestedKey(obs[t].cache_lookups[1]))
               /\ \A i \in 1..Len(obs[t].synth_inputs) :
                    obs[t].synth_inputs[i] = task[t].agent_output
               /\ obs[t].fetch_inputs = <<>>
               /\ obs[t].fetch_outputs = <<>>
               /\ Session(t).cached_query_results = obs[t].cache_before

\* a turn has ended with the outcome cached under the key its plan named,
\* which is not the outcome cached as "latest"
C16_Witness ==
    \E t \in Tasks :
        /\ CacheHit(t)
        /\ task[t].pc = "done"
        /\ task[t].response.kind = "response"
        /\ obs[t].cache_lookups[1].key \notin {None, "latest"}
        /\ task[t].agent_output # DictGet(obs[t].cache_before, "latest")

\* the cache of session s (empty when the session does not exist)
CacheOf(s) == IF store[s] = 0 THEN <<>> ELSE heap[store[s]].cached_query_results

\* C17: in every reachable state, if a session's cache holds "latest", its
\* value is the outcome of the most recent successful fresh fetch of that
\* session.
C17_LatestIsLastSuccessfulFetch ==
    \A s \in SessionIds :
        DictGet(CacheOf(s), "latest") # <<>>
            => DictGet(CacheOf(s), "latest") = fetched[s].success

\* C17, amended: in every reachable state, if a session's cache holds
\* "latest", its value is the outcome of the most recent successful fresh
\* fetch of that session made by a turn that was not cancelled while the
\* fetch was in flight; evictions, cache hits, failed fetches, clarifications
\* and cancelled turns leave it so.
C17_LatestIsLastStoredFetch ==
    \A s \in SessionIds :
        DictGet(CacheOf(s), "latest") # <<>>
            => DictGet(CacheOf(s), "latest") = fetched[s].stored

\* after an eviction dropped the oldest key, a later turn's successful fetch
\* was discarded by cancellation and "latest" still holds the stored outcome
C17_Witness ==
    \E s \in SessionIds :
        /\ DictGet(CacheOf(s), "latest") = fetched[s].stored
        /\ fetched[s].stored # <<>>
        /\ fetched[s].stored # <<WarmFetches[Len(WarmFetches)]>>
        /\ fetched[s].success # fetched[s].stored
        /\ DictGet(CacheOf(s), CacheKey(WarmFetches[1].sql_query, 0)) = <<>>

\* TRUE when the cache of t's session holds the outcome route_to_database_query
\* returned under the key derived from it and the clock, and under "latest"
StoredTwice(t) ==
    /\ DictGet(Session(t).cached_query_results,
               CacheKey(obs[t].router_result[1].sql_query, now)) = obs[t].router_result
    /\ DictGet(Session(t).cached_query_results, "latest") = obs[t].router_result

\* C18: once the retrying fetch of a turn has returned, a successful outcome
\* is in the session's cache under a derived key and under "latest", the
\* eviction to the last 5 done; a failed one left the cache as it was.
C18_SuccessfulFetchStoredTwice ==
    \A t \in Tasks :
        RouterReturned(t)
            => IF obs[t].router_result[1].success
               THEN StoredTwice(t)
               ELSE Session(t).cached_query_results = obs[t].cache_before

\* C18, amended: once the retrying fetch of a turn has returned and the turn
\* was not cancelled while it was in flight, a successful outcome is in the
\* session's cache under a derived key and under "latest", the eviction to
\* the last 5 done; a failed fetch, and one whose turn was cancelled in
\* flight, left the cache as it was.
C18_UncancelledFetchStoredTwice ==
    \A t \in Tasks :
        RouterReturned(t)
            => IF obs[t].router_result[1].success /\ task[t].response.kind # "cancelled"
               THEN /\ StoredTwice(t)
                    /\ Len(Session(t).cached_query_results) <= keep_last_n
               ELSE Session(t).cached_query_results = obs[t].cache_before

\* a successful fetch was stored under a new key in a cache that was full, and
\* the eviction that followed dropped another entry than the two just stored
C18_Witness ==
    \E t \in Tasks :
        /\ RouterReturned(t)
        /\ obs[t].router_result[1].success
        /\ Len(obs[t].cache_before) = keep_last_n
        /\ DictGet(obs[t].cache_before,
                   CacheKey(obs[t].router_result[1].sql_query, now)) = <<>>
        /\ StoredTwice(t)
        /\ Len(Session(t).cached_query_results) = keep_last_n

\* the key-value pairs of an insertion-ordered dict
Entries(d) == {d[i] : i \in 1..Len(d)}

\* the last k entries of a sequence of entries (all of them when it has fewer)
MostRecent(items, k) ==
    {items[i] : i \in {j \in 1..Len(items) : j > Len(items) - k}}

\* C19: for every n >= 1, clear_old_results(n) leaves the "latest" entry if
\* the cache held one and, of the other entries, exactly the most recent
\* n - 1 by insertion order (n when there is no "latest"), or all of them
\* when they are fewer; so the cache holds at most n entries afterwards.
C19_EvictKeepsLatestAndMostRecent ==
    \A s \in SessionIds : \A n \in 1..MaxKeep :
        LET d == CacheOf(s)
            latest == {e \in Entries(d) : e.key = "latest"}
            items == DictDel(d, "latest")
            kept == KeepLastN(d, n)
        IN  /\ Entries(kept) =
                    latest \cup MostRecent(items, IF latest # {} THEN n - 1 ELSE n)
            /\ Len(kept) <= n

\* C20: for every cache content and every n >= 0, clear_old_results(n)
\* applied twice in a row leaves the same keys and values as applied once.
C20_EvictIsIdempotent ==
    \A s \in SessionIds : \A n \in 0..MaxKeep :
        Entries(KeepLastN(KeepLastN(CacheOf(s), n), n)) = Entries(KeepLastN(CacheOf(s), n))

\* C21: get_latest_query_result returns the value stored under "latest" when
\* the cache holds that key, otherwise the value of the entry inserted last,
\* and nothing for an empty cache or a session that does not exist.
C21_GetLatestPrefersLatestKey ==
    \A s \in SessionIds :
        LET d == CacheOf(s)
            result == GetLatestQueryResult(heap, store, s)
        IN  /\ (store[s] = 0 \/ d = <<>>) => result = <<>>
            /\ \A e \in Entries(d) : e.key = "latest" => result = <<e.value>>
            /\ (d # <<>> /\ \A e \in Entries(d) : e.key # "latest")
                    => result = <<d[Len(d)].value>>

\* after two puts under other keys with different outcomes the last one is
\* returned
C21_Witness ==
    /\ Len(CacheOf("default")) = 2
    /\ \A e \in Entries(CacheOf("default")) : e.key # "latest"
    /\ CacheOf("default")[1].value # CacheOf("default")[2].value
    /\ GetLatestQueryResult(heap, store, "default") = <<CacheOf("default")[2].value>>
    /\ GetLatestQueryResult(heap, store, "s1") = <<>>

\* the stored history of session s
HistoryOf(s) == heap[store[s]].message_history

\* C22: in a sequence of turns with no reset, the length of a session's
\* stored history never decreases from one state to the next.
C22_HistoryNeverShrinks ==
    [][\A s \in SessionIds :
        (store[s] # 0 /\ store'[s] = store[s])
            => Len(HistoryOf(s)') >= Len(HistoryOf(s))]_vars

\* C22, amended: in a sequence of turns with no reset, the length of a
\* session's stored history decreases from one state to the next only in the
\* step in which a turn of that session stores the summary of a history
\* longer than MAX_MESSAGES, and then to no less than KEEP_RECENT + 1.
C22_HistoryShrinksOnlyByCompaction ==
    [][\A s \in SessionIds :
        (store[s] # 0 /\ store'[s] = store[s])
            => \/ Len(HistoryOf(s)') >= Len(HistoryOf(s))
               \/ /\ Len(HistoryOf(s)) > MAX_MESSAGES
                  /\ Len(HistoryOf(s)') >= KEEP_RECENT + 1
                  /\ \E t \in Tasks :
                        /\ task[t].pc = "summarizing"
                        /\ task[t].session_id = s
                        /\ obs'[t].summarizer_outcome = "returned"]_vars

\* a turn has stored the summary of a longer history and gone on to Planning,
\* and the history has grown again since
C22_Witness ==
    \E t \in Tasks :
        /\ obs[t].summarizer_outcome = "returned"
        /\ task[t].pc = "done"
        /\ task[t].response.kind = "response"
        /\ Len(obs[t].hist_before) > MAX_MESSAGES
        /\ Len(Session(t).message_history) < Len(obs[t].hist_before)
        /\ Len(Session(t).message_history) > KEEP_RECENT + 2

\* C23: when the summarizer succeeds on a history longer than MAX_MESSAGES,
\* the history the turn goes on with has exactly KEEP_RECENT + 1 entries: one
\* summary message, then the last KEEP_RECENT entries of the input, the same
\* and in the same order.
C23_CompactionKeepsRecent ==
    \A t \in Tasks :
        obs[t].summarizer_outcome = "returned"
            => LET input == obs[t].hist_before
                   result == obs[t].hist_planning
               IN  /\ Len(input) > MAX_MESSAGES
                   /\ Len(result) = KEEP_RECENT + 1
                   /\ result[1].role = "system"
                   /\ \E x \in SummaryTexts : result[1] = SummaryMsg(x)
                   /\ \A i \in 1..KEEP_RECENT :
                        result[i + 1] = input[Len(input) - KEEP_RECENT + i]

\* a history of more than MAX_MESSAGES + 1 entries, the last of them unlike
\* the ones before it, has been compacted
C23_Witness ==
    \E t \in Tasks :
        /\ obs[t].summarizer_outcome = "returned"
        /\ Len(obs[t].hist_before) > MAX_MESSAGES + 1
        /\ Len(obs[t].hist_planning) = KEEP_RECENT + 1
        /\ obs[t].hist_planning[KEEP_RECENT + 1] # obs[t].hist_planning[KEEP_RECENT - 1]

\* C24: when the summarizer raises on a history longer than MAX_MESSAGES, the
\* turn goes on with the stored history unchanged and, unless it was cancelled
\* meanwhile, calls the planner with that history and the user's message.
C24_SummarizerFailureKeepsHistory ==
    \A t \in Tasks :
        obs[t].summarizer_outcome = "raised"
            => /\ Len(obs[t].hist_before) > MAX_MESSAGES
               /\ obs[t].hist_planning = obs[t].hist_before
               /\ task[t].pc # "summarizing"
               /\ task[t].response.kind # "error"
               /\ obs[t].cancel_pc # "summarizing"
                    => /\ obs[t].planner_inputs # <<>>
                       /\ obs[t].planner_inputs[1].history
                            = Append(obs[t].hist_before, UserMsg(task[t].content))

\* a turn whose summarizer raised is waiting for the planner with the whole
\* stored history and its own message
C24_Witness ==
    \E t \in Tasks :
        /\ obs[t].summarizer_outcome = "raised"
        /\ task[t].pc = "planning"
        /\ Len(Session(t).message_history) = Len(obs[t].hist_before) + 1
        /\ Len(obs[t].hist_before) > MAX_MESSAGES

\* C25: a turn whose stored history has at most MAX_MESSAGES entries goes on
\* with that history unchanged and never invokes the summarizer; and the
\* history a successful summarization leaves has at most MAX_MESSAGES
\* entries, so that summarizing it again is that same no-op.
C25_NoCompactionAtOrBelowMax ==
    \A t \in Tasks :
        /\ Len(obs[t].hist_before) <= MAX_MESSAGES
            => /\ obs[t].summarizer_calls = 0
               /\ obs[t].summarizer_outcome = None
               /\ task[t].pc # "summarizing"
               /\ obs[t].hist_planning = obs[t].hist_before
        /\ obs[t].summarizer_outcome = "returned"
            => /\ Len(obs[t].hist_planning) <= MAX_MESSAGES
               /\ ~NeedsSummary(obs[t].hist_planning)

\* a turn whose stored history has exactly MAX_MESSAGES entries is waiting for
\* the planner without having called the summarizer
C25_Witness ==
    \E t \in Tasks :
        /\ Len(obs[t].hist_before) = MAX_MESSAGES
        /\ task[t].pc = "planning"
        /\ obs[t].summarizer_calls = 0
        /\ obs[t].hist_planning = obs[t].hist_before

\* TRUE when t's turn has ended with the synthesizer's response, its planner
\* having returned a plan, with no clarification, no cancellation request and
\* no summarization
PlainTurnEnded(t) ==
    /\ task[t].pc = "done"
    /\ task[t].response.kind = "response"
    /\ ReturnedPlan(t)
    /\ ~task[t].response.metadata.requires_clarification
    /\ ~cancellation_event[t]
    /\ obs[t].summarizer_calls = 0

\* C26: a turn whose planner returns a plan, with no clarification, no
\* cancellation and no compaction, leaves the session's history two entries
\* longer: the user's message, then the assistant's message of the response,
\* whether the fetch succeeded or not.
C26_PlainTurnAppendsTwo ==
    \A t \in Tasks :
        PlainTurnEnded(t)
            => Session(t).message_history
                = obs[t].hist_before
                    \o <<UserMsg(task[t].content), AssistantMsg(task[t].response.message)>>

\* a turn whose fetch failed on every attempt has ended with its two messages
\* appended to a history that was not empty
C26_Witness ==
    \E t \in Tasks :
        /\ PlainTurnEnded(t)
        /\ RouterReturned(t)
        /\ ~obs[t].router_result[1].success
        /\ obs[t].hist_before # <<>>
        /\ Len(Session(t).message_history) = Len(obs[t].hist_before) + 2

\* the state of session s as the store gives it (empty: no such session)
Stored(s) == StoredSessions(heap, store)[s]

\* C27: get_or_create_session uses the history it is handed only when no
\* session exists for the id; the state of a session that exists, whatever
\* its history, an empty one too, is left as it was.
C27_SeedOnlyForNewSession ==
    call.op = "get_or_create_session"
        => IF call.before[call.session_id] = <<>>
           THEN Stored(call.session_id) = <<NewSession(call.message_history)>>
           ELSE Stored(call.session_id) = call.before[call.session_id]

\* C27, amended: get_or_create_session creates a session with the history it
\* is handed when none exists for the id; a session that exists with a
\* non-empty history is left as it was; a session that exists with an empty
\* history takes the history handed in and keeps its cache.
C27_SeedForNewOrEmptySession ==
    call.op = "get_or_create_session"
        => LET before == call.before[call.session_id] IN
           IF before = <<>>
           THEN Stored(call.session_id) = <<NewSession(call.message_history)>>
           ELSE IF before[1].message_history = <<>>
           THEN Stored(call.session_id)
                    = <<[before[1] EXCEPT !.message_history = call.message_history]>>
           ELSE Stored(call.session_id) = before

\* get_or_create_session was handed a history for a session that had another,
\* non-empty one, and the session kept its own
C27_Witness ==
    /\ call.op = "get_or_create_session"
    /\ call.before[call.session_id] # <<>>
    /\ call.before[call.session_id][1].message_history # <<>>
    /\ call.message_history # <<>>
    /\ call.message_history # call.before[call.session_id][1].message_history
    /\ Stored(call.session_id) = call.before[call.session_id]

\* TRUE of a step that is a call of reset
ResetStep ==
    /\ call'.op = "reset"
    /\ task' = task
    /\ turns' = turns

\* TRUE of a step in which t's chat starts for session s, the first chat after
\* a reset of s
FirstChatAfterReset(t, s) ==
    /\ turns' = turns + 1
    /\ call.op = "reset"
    /\ call.session_id \in {None, s}
    /\ task'[t].pc # "idle"
    /\ task'[t].session_id = s

\* C28: reset with a session id removes that session's state from the store
\* and leaves the state of every other session as it was; reset without an id
\* removes every session; and the next message for a reset id starts from a
\* new session: the seed history, an empty cache, no PendingClarification.
C28_ResetRemovesAndNextStartsNew ==
    [][/\ ResetStep =>
            \A s \in SessionIds :
                IF call'.session_id \in {None, s}
                THEN store'[s] = 0
                ELSE StoredSessions(heap', store')[s] = StoredSessions(heap, store)[s]
       /\ \A t \in Tasks, s \in SessionIds :
            FirstChatAfterReset(t, s) =>
                /\ store[s] = 0
                /\ task'[t].session_state = Len(heap) + 1
                /\ obs'[t].hist_before \in ShortSeeds
                /\ obs'[t].cache_before = <<>>
                /\ obs'[t].pending_before = <<>>]_vars

\* TRUE of a step in which coroutine t handles a message of session_id
StepOfSession(t, session_id) ==
    /\ task'[t] # task[t]
    /\ task'[t].session_id = session_id

\* C29: a step of a turn that handles a message of session A, whatever the
\* turns of other sessions do before and after it, leaves the stored state of
\* every session B other than A as it was: B's history, B's
\* PendingClarification and B's cache.
C29_TurnLeavesOtherSessionsAlone ==
    [][\A t \in Tasks, A \in SessionIds, B \in SessionIds :
            StepOfSession(t, A) /\ B # A
                => StoredSessions(heap', store')[B] = StoredSessions(heap, store)[B]]_vars

\* a turn of one session has ended with its fetch in the cache and its
\* two messages in the history, while the turn of the other session, which
\* began before, is still in flight and that session's cache is empty
C29_Witness ==
    \E t \in Tasks, u \in Tasks :
        /\ task[t].pc = "done"
        /\ task[u].pc \in {"fetching", "synthesizing"}
        /\ task[t].session_id # task[u].session_id
        /\ task[t].agent_output # <<>>
        /\ CacheOf(task[t].session_id) # <<>>
        /\ CacheOf(task[u].session_id) = <<>>
        /\ Len(HistoryOf(task[t].session_id)) = 2
        /\ Len(HistoryOf(task[u].session_id)) = 1

\* C30: when two messages of one session are handled concurrently, their
\* appends to the session's history do not interleave: the user turn of a
\* message is never immediately followed by the user turn of another message
\* (the two coroutines send different contents).
C30_UserTurnsNotInterleaved ==
    \A s \in SessionIds :
        store[s] # 0 =>
            \A i \in 1..(Len(HistoryOf(s)) - 1) :
                HistoryOf(s)[i].role = "user" /\ HistoryOf(s)[i + 1].role = "user"
                    => HistoryOf(s)[i + 1].content = HistoryOf(s)[i].content

\* TRUE of a step in which t's summarizer call returns and the compacted
\* history is stored
CompactionStored(t) ==
    /\ task[t].pc = "summarizing"
    /\ task'[t].pc # "summarizing"
    /\ obs'[t].summarizer_outcome = "returned"

\* the messages appended to t's session since t's chat was called, when the
\* history has only grown since then
AppendedSinceCall(t) ==
    LET h == Session(t).message_history
        n == Len(obs[t].hist_before)
    IN  IF Len(h) >= n /\ SubSeq(h, 1, n) = obs[t].hist_before
        THEN SubSeq(h, n + 1, Len(h))
        ELSE <<>>

\* TRUE when part occurs in h as a run of consecutive messages that starts at
\* position from or later
OccursFrom(h, part, from) ==
    \E i \in from..(Len(h) - Len(part) + 1) : SubSeq(h, i, i + Len(part) - 1) = part

\* C31: when the summarizer call of a turn returns and the compacted history
\* is stored, the turns the other coroutine appended to the session while the
\* call was suspended are still in the session's history, after the summary
\* and the recent messages.
C31_CompactionKeepsConcurrentAppends ==
    [][\A t \in Tasks :
            CompactionStored(t)
                => OccursFrom(heap'[task[t].session_state].message_history,
                              AppendedSinceCall(t),
                              Len(task[t].recent_messages) + 2)]_vars

\* TRUE of a step in which a capability call of t's turn raises
CapabilityRaises(t) ==
    /\ obs[t].raised = None
    /\ obs'[t].raised # None

\* C32: when the plan, fetch or synthesis call of a turn raises, the turn ends
\* with that failure at its caller in the same step: no capability is called
\* after the failing call, no session's state changes, so no assistant turn
\* is appended, and the turn has appended nothing but its user message.
C32_CapabilityFailurePropagates ==
    [][\A t \in Tasks :
            CapabilityRaises(t) =>
                /\ task'[t].pc = "done"
                /\ task'[t].response = FailedResponse
                /\ obs'[t] = [obs[t] EXCEPT !.raised = obs'[t].raised]
                /\ StoredSessions(heap', store') = StoredSessions(heap, store)
                /\ heap' = heap
                /\ Appended(t) = <<UserMsg(task[t].content)>>]_vars

\* the synthesizer call of a turn that fetched with success has raised, the
\* second turn of its session
C32_Witness ==
    \E t \in Tasks :
        /\ obs[t].raised = "synthesizer"
        /\ task[t].response = FailedResponse
        /\ obs[t].router_result # <<>>
        /\ obs[t].hist_before # <<>>
        /\ Session(t).message_history[Len(Session(t).message_history)] = UserMsg(task[t].content)

\* TRUE when the retrying fetch of t's turn has returned a failed outcome
FetchFailed(t) ==
    /\ obs[t].router_result # <<>>
    /\ ~obs[t].router_result[1].success

\* C33: every outcome a session's cache holds, under a derived key or under
\* "latest", has success set; and once the retrying fetch of a turn has
\* returned a failed outcome, the session's cache, its "latest" entry
\* included, is the cache the turn found.
C33_OnlySuccessfulOutcomesCached ==
    /\ \A s \in SessionIds : \A e \in Entries(CacheOf(s)) : e.value.success
    /\ \A t \in Tasks :
            FetchFailed(t) => Session(t).cached_query_results = obs[t].cache_before

\* the fetch of a turn has failed max_retries + 1 times on a session whose
\* cache holds a "latest" entry, and the turn has ended
C33_Witness ==
    \E t \in Tasks :
        /\ FetchFailed(t)
        /\ Len(obs[t].fetch_outputs) = max_retries + 1
        /\ task[t].pc = "done"
        /\ DictGet(obs[t].cache_before, "latest") # <<>>
        /\ DictGet(Session(t).cached_query_results, "latest") # obs[t].router_result

\* C34: in every reachable state, and so after every completed turn, the cache
\* of every session holds at most keep_last_n (5) entries, "latest" counted.
C34_CacheAtMostFive ==
    \A s \in SessionIds : Len(CacheOf(s)) <= keep_last_n

\* a turn has ended after a successful fetch under a new key on a session
\* whose cache was full: the cache holds 5 entries again, the new one among
\* them and the oldest of the earlier ones gone
C34_Witness ==
    \E t \in Tasks :
        /\ task[t].pc = "done"
        /\ Len(obs[t].cache_before) = keep_last_n
        /\ obs[t].router_result # <<>>
        /\ obs[t].router_result[1].success
        /\ Len(Session(t).cached_query_results) = keep_last_n
        /\ \E e \in Entries(Session(t).cached_query_results) :
                KeyIndex(obs[t].cache_before, e.key) = 0
        /\ \E e \in Entries(obs[t].cache_before) :
                KeyIndex(Session(t).cached_query_results, e.key) = 0

\* TRUE when t's turn is suspended in the synthesizer call
Synthesizing(t) == task[t].pc = "synthesizing"

\* C35: whenever a turn is in Synthesizing with a plan of intent
\* database_query, the turn holds a fetch outcome, from the cache or from the
\* retrying fetch, and that outcome is what the synthesizer was handed: the
\* context formatter never sees a database_query without an outcome.
C35_SynthesisHasOutcomeForDataQuery ==
    \A t \in Tasks :
        Synthesizing(t) /\ PlanOf(t).intent_type = "database_query"
            => /\ task[t].agent_output # <<>>
               /\ obs[t].synth_inputs = <<task[t].agent_output>>

\* a turn is in Synthesizing with a database_query plan that asked for cached
\* data the cache did not hold, and holds the outcome of the fetch it fell
\* back to, a failed one
C35_Witness ==
    \E t \in Tasks :
        /\ Synthesizing(t)
        /\ PlanOf(t).intent_type = "database_query"
        /\ CacheMiss(t)
        /\ task[t].agent_output = obs[t].router_result
        /\ FetchFailed(t)

\* TRUE when t's turn has ended: with a final response or a clarification,
\* with cancellation, or with the failure of a capability
TurnEnded(t) ==
    /\ task[t].pc = "done"
    /\ task[t].response.kind \in {"response", "cancelled", "failed"}

\* the capability calls t's turn has made stay within one summarizer call,
\* one planner call, max_retries + 1 fetch calls and one synthesizer call
WithinBudget(t) ==
    /\ obs[t].summarizer_calls <= 1
    /\ Len(obs[t].planner_inputs) <= 1
    /\ Len(obs[t].fetch_inputs) <= max_retries + 1
    /\ Len(obs[t].synth_inputs) <= 1

\* C36: provided every capability call returns or raises, every turn that has
\* started ends, with a final response, a clarification, cancellation or a
\* capability failure, and at no time has it made more than one summarizer
\* call, one planner call, max_retries + 1 fetch calls and one synthesizer call.
C36_EveryTurnTerminates ==
    /\ [](\A t \in Tasks : WithinBudget(t))
    /\ \A t \in Tasks : Running(t) ~> TurnEnded(t)

\* a turn has ended with a final response after it used its whole budget:
\* the summarizer, the planner, max_retries + 1 fetches and the synthesizer
C36_Witness ==
    \E t \in Tasks :
        /\ TurnEnded(t)
        /\ task[t].response.kind = "response"
        /\ obs[t].summarizer_calls = 1
        /\ Len(obs[t].planner_inputs) = 1
        /\ Len(obs[t].fetch_inputs) = max_retries + 1
        /\ Len(obs[t].synth_inputs) = 1

\* TRUE when reset has removed t's session since t's chat was called and no
\* chat has been called since
ResetSinceCall(t) ==
    /\ call.op = "reset"
    /\ call.session_id \in {None, "", task[t].session_id}

\* C37: when reset removes a session while a turn of that session is
\* suspended in a capability call, the store holds no state for the session
\* once the turn has finished: the turn does not create the session again and
\* adds no cache or history entry to the store.
C37_FinishedTurnLeavesResetSessionAbsent ==
    \A t \in Tasks :
        (task[t].pc = "done" /\ task[t].session_id # None /\ ResetSinceCall(t))
            => store[task[t].session_id] = 0

\* TRUE of a step in which chat is called for t with the cancellation event
\* already set
ChatCalledCancelled(t) ==
    /\ turns' = turns + 1
    /\ cancellation_event'[t]
    /\ obs'[t].cancel_pc = "start"

\* C38: a turn that starts with its cancellation event set raises
\* cancellation in the step of its call: the store and every session state
\* are as before, so no session is created and no history,
\* PendingClarification or cache changes, and the turn has made no summarizer,
\* planner, fetch or synthesizer call.
C38_CancelledAtStartTouchesNothing ==
    [][\A t \in Tasks :
            ChatCalledCancelled(t) =>
                /\ store' = store
                /\ heap' = heap
                /\ fetched' = fetched
                /\ task'[t] = [IdleTask EXCEPT !.pc = "done", !.response = CancelledResponse]
                /\ obs'[t] = [NoObs EXCEPT !.cancel_pc = "start"]]_vars

\* the second turn of a session started with the event set and raised
\* cancellation; the session holds the history and the PendingClarification
\* the first turn left
C38_Witness ==
    \E t \in Tasks :
        /\ obs[t].cancel_pc = "start"
        /\ task[t].response = CancelledResponse
        /\ turns = 2
        /\ store["default"] # 0
        /\ HistoryOf("default") # <<>>
        /\ heap[store["default"]].pending_clarification # <<>>

\* TRUE when no summarizer call of t's turn has raised
SummarizerSucceeded(t) == obs[t].summarizer_outcome # "raised"

\* C39: in a turn whose summarizer call, if it made one, succeeded, the
\* history handed to the planner has at most MAX_MESSAGES + 1 (21) entries,
\* whatever the seed history and the turns before it.
C39_PlannerHistoryBounded ==
    \A t \in Tasks :
        SummarizerSucceeded(t) =>
            \A i \in 1..Len(obs[t].planner_inputs) :
                Len(obs[t].planner_inputs[i].history) <= MAX_MESSAGES + 1

\* the planner of a turn was handed MAX_MESSAGES + 1 entries: the session
\* held MAX_MESSAGES, so nothing was compacted, and the turn added its
\* user message
C39_Witness ==
    \E t \in Tasks :
        /\ obs[t].summarizer_calls = 0
        /\ Len(obs[t].hist_before) = MAX_MESSAGES
        /\ obs[t].planner_inputs # <<>>
        /\ Len(obs[t].planner_inputs[1].history) = MAX_MESSAGES + 1

\* TRUE when t's turn has ended in a clarification, the planner's or the
\* fetch's
EndedInClarification(t) ==
    /\ task[t].pc = "done"
    /\ task[t].response.kind = "response"
    /\ task[t].response.metadata.requires_clarification

\* C40: when a turn has ended in a clarification, plan-level or fetch-level,
\* the session's PendingClarification holds the text the user sent in that
\* turn, not the retry input the router built from it; and a session holds at
\* most one PendingClarification, a new one taking the place of the old.
C40_PendingHoldsRawTextOfLastRequest ==
    /\ \A s \in SessionIds :
            store[s] # 0 => Len(heap[store[s]].pending_clarification) <= 1
    /\ \A t \in Tasks :
            EndedInClarification(t) =>
                /\ Len(Session(t).pending_clarification) = 1
                /\ Session(t).pending_clarification[1].original_message = task[t].content

\* a turn has ended in a fetch-level clarification after retries, so the
\* router's last input was not the user's text, on a session that held the
\* PendingClarification of an earlier turn with another text
C40_Witness ==
    \E t \in Tasks :
        /\ EndedInClarification(t)
        /\ ReturnedPlan(t)
        /\ task[t].attempt = max_retries
        /\ task[t].user_message # task[t].content
        /\ obs[t].pending_before # <<>>
        /\ obs[t].pending_before[1].original_message # task[t].content

====
